---- MODULE Spec2Model ----
(***************************************************************************)
(* Token lifecycle of ADSKSpark.Client (src/sdk/src/Client.js): the two    *)
(* localStorage slots, the three optional collaborator URLs, the clock,    *)
(* and the promise chains of the asynchronous operations.                  *)
(*                                                                         *)
(* JavaScript is single threaded: the synchronous part of a call is one    *)
(* atomic step, and the reaction chain that runs when a network call       *)
(* settles (the .then handler of the operation and the .then handlers      *)
(* chained on it inside the SDK) is one atomic step.  The only suspension  *)
(* points are the three network calls.                                     *)
(***************************************************************************)
EXTENDS Integers, Sequences, FiniteSets, Bags, TLC

\* ---------------------------------------------------------------- bounds
MaxPending == 2      \* promises of asynchronous operations left pending
MaxTicks == 1        \* number of clock advances

\* ------------------------------------------------------ program constants
MsPerSec == 1000     \* the factor of "parseInt(expires_in) * 1000"

\* ------------------------------------------------------- JavaScript values
Undefined == -1      \* a numeric field that is missing (undefined)
NaN       == -2      \* parseInt(undefined), and arithmetic on it
JsonNull  == -3      \* what JSON.stringify/JSON.parse make of NaN
NONE      == "undefined"   \* a string field that is missing
NULLSTR   == "null"        \* a null returned where a string is expected


\* A number is truthy unless it is 0, NaN, null or undefined.
TruthyNum(n) == n > 0
\* A string is truthy unless it is missing (the model has no empty strings).
TruthyStr(s) == s # NONE

\* The value of JSON.parse(localStorage.getItem(key)) when the key is unset.
Absent ==
  [kind |-> "absent", access_token |-> NONE, expires_in |-> Undefined,
   expires_at |-> Undefined, refresh_token |-> NONE, Error |-> NONE]

\* What is stored under a key is not JSON text: JSON.parse throws on it.
Malformed == [Absent EXCEPT !.kind = "malformed"]

\* parseInt on the values the model feeds it.
ParseInt(v) == IF v = Undefined THEN NaN ELSE v

\* now + parseInt(expires_in) * 1000
ExpiresAt(t, expiresIn) ==
  IF ParseInt(expiresIn) = NaN THEN NaN ELSE t + ParseInt(expiresIn) * MsPerSec

\* JSON.parse(JSON.stringify(data)): NaN becomes null, missing fields stay
\* missing.
JsonRoundTrip(data) ==
  [data EXCEPT !.kind = "json",
               !.expires_at = IF @ = NaN THEN JsonNull ELSE @]

\* What a collaborator may answer: an object that lacks the access token, an
\* object with an access token (a refresh_token comes with it) and an
\* expires_in of 0 or 1 second or none, or an object with an error
\* indicator, with and without a token.
Object(tok, expiresIn, rt, error) ==
  [kind |-> "object", access_token |-> tok, expires_in |-> expiresIn,
   expires_at |-> Undefined, refresh_token |-> rt, Error |-> error]

Responses ==
  {Object(NONE, 1, NONE, NONE)}
  \cup {Object("t2", e, "rt", NONE) : e \in {Undefined, 0, 1}}
  \cup {Object(NONE, Undefined, NONE, "err"), Object("t2", 1, "rt", "err")}

\* The token data Helpers.extractRedirectionTokenData finds in the redirect:
\* nothing, or an access token with or without expires_in.
RedirectTokenData ==
  {[access_token |-> NONE, expires_in |-> Undefined]}
  \cup [access_token : {"t1"}, expires_in : {Undefined, 0, 1}]

\* The code Helpers.extractRedirectionCode finds in the redirect.
RedirectCodes == {NONE, "code"}

NullHeader == << >>
Bearer(tok) == <<"Bearer", tok>>

\* What the step taken last did: op names the operation, step tells whether
\* the step was the call of the operation or the response or the failure of
\* its network call, state is what became of the promise the operation
\* returned (returned for a synchronous operation, hung for a promise left
\* pending with nothing that could settle it); tok, hdr, obj or b is the
\* value returned or resolved with, err the reason of a rejection (of the
\* promise, or of the promise inside that the operation does not handle),
\* code the authorization code of the redirect, data the collaborator
\* response or the redirect token data the step consumed.
NoEvent ==
  [op |-> "none", step |-> "none", state |-> "none", tok |-> NONE,
   hdr |-> NullHeader, obj |-> Absent, b |-> FALSE, err |-> NONE,
   code |-> NONE, data |-> Absent]

\* A promise left pending: the operation that returned it and the network
\* call it waits for (exchange, refresh or guest), or "hung" when nothing is
\* left that could settle it.
Promise(name, call) == [op |-> name, call |-> call]

VARIABLES
  guestTokenUrl,    \* _guestTokenUrl is set
  accessTokenUrl,   \* _accessTokenUrl is set
  refreshTokenUrl,  \* _refreshTokenUrl is set
  now,              \* Date.now()
  accessSlot,       \* localStorage[ACCESS_TOKEN_KEY], parsed
  guestSlot,        \* localStorage[GUEST_TOKEN_KEY], parsed
  pending,          \* the bag of the promises left pending
  last              \* the step taken last

vars == <<guestTokenUrl, accessTokenUrl, refreshTokenUrl, now, accessSlot,
          guestSlot, pending, last>>

config == <<guestTokenUrl, accessTokenUrl, refreshTokenUrl>>

StartTime == MsPerSec
MaxTime   == StartTime + MaxTicks * MsPerSec

\* The number of network calls of a kind in flight.
InFlight(call) ==
  CopiesIn(Promise("completeLogin(true)", call), pending)
  + CopiesIn(Promise("refreshAccessToken", call), pending)
  + CopiesIn(Promise("authorizedApiRequest", call), pending)
  + CopiesIn(Promise("getGuestToken", call), pending)
  + CopiesIn(Promise("authorizedAsGuestApiRequest", call), pending)

\* ADSKSpark.Client.initialize has run once, with any subset of the three
\* collaborator URLs; localStorage is empty.
Init ==
  /\ guestTokenUrl \in BOOLEAN
  /\ accessTokenUrl \in BOOLEAN
  /\ refreshTokenUrl \in BOOLEAN
  /\ now = StartTime
  /\ accessSlot = Absent
  /\ guestSlot = Absent
  /\ pending = EmptyBag
  /\ last = NoEvent

\* ------------------------------------------------------ pure parts of code

\* JSON.parse(localStorage.getItem(key)) is truthy.
Truthy(token) == token.kind = "json"

\* JSON.parse(localStorage.getItem(key)) throws a SyntaxError.
ParseThrows(slot) == slot.kind = "malformed"

\* logout as it would be if it removed nothing.
logoutKeeps(slot) == slot

\* logout: localStorage.removeItem(ACCESS_TOKEN_KEY); the slot afterwards.
logout(slot) == Absent

\* isAccessTokenValid: the condition under which it calls this.logout().
isAccessTokenValidRemoves(accessToken, t) ==
  Truthy(accessToken) /\ TruthyNum(accessToken.expires_at)
    /\ accessToken.expires_at < t

\* isAccessTokenValid as it would be with >= for >.
isAccessTokenValidInclusive(accessToken, t) ==
  Truthy(accessToken) /\ TruthyNum(accessToken.expires_at)
    /\ accessToken.expires_at >= t

\* isAccessTokenValid: the value it returns.
isAccessTokenValid(accessToken, t) ==
  Truthy(accessToken) /\ TruthyNum(accessToken.expires_at)
    /\ accessToken.expires_at > t

\* getAccessTokenObject as it would be if it returned null for a record past
\* expiry.
getAccessTokenObjectUnexpired(accessToken) ==
  IF Truthy(accessToken) /\ TruthyStr(accessToken.access_token)
       /\ ~(TruthyNum(accessToken.expires_at) /\ accessToken.expires_at < now)
  THEN accessToken ELSE Absent

\* getAccessTokenObject: the object it returns, Absent standing for null.
getAccessTokenObject(accessToken) ==
  IF Truthy(accessToken) /\ TruthyStr(accessToken.access_token)
  THEN accessToken ELSE Absent

\* getAccessToken: the string it returns, or null.
getAccessToken(accessToken) ==
  IF Truthy(accessToken) /\ TruthyStr(accessToken.access_token)
  THEN accessToken.access_token ELSE NULLSTR

\* getGuestToken as it would be without the fall back to the access token.
getGuestTokenRecordNoFallback(guest, access) == guest

\* getGuestToken as it would be if an expired guest record fell back too.
getGuestTokenRecordExpiredFallback(guest, access) ==
  IF ~Truthy(guest) \/ ~(TruthyNum(guest.expires_at) /\ guest.expires_at > now)
  THEN access ELSE guest

\* getGuestToken: the record it looks at, the guest record unless that slot
\* is unset.
getGuestTokenRecord(guest, access) ==
  IF ~Truthy(guest) THEN access ELSE guest

\* getGuestToken: the record is used as it is.
getGuestTokenUsable(token, t) ==
  Truthy(token) /\ TruthyNum(token.expires_at) /\ token.expires_at > t

\* getGuestTokenFromServer as it would be without the factor 1000.
getGuestTokenFromServerSeconds(data, t) ==
  JsonRoundTrip([data EXCEPT !.expires_at =
                   IF ParseInt(data.expires_in) = NaN THEN NaN
                   ELSE t + ParseInt(data.expires_in)])

\* getGuestTokenFromServer, the .then handler: the record it stores.
getGuestTokenFromServer(data, t) ==
  JsonRoundTrip([data EXCEPT !.expires_at = ExpiresAt(t, data.expires_in)])

\* completeLogin as it would be if it did not test what the redirect holds.
completeLoginSuppliedAlways(value) == TRUE

\* completeLogin: if (code), if (data && data.access_token).
completeLoginSupplied(value) == TruthyStr(value)

\* completeImplicitLogin as it would be without the factor 1000.
completeImplicitLoginSeconds(accessToken, expiresIn, t) ==
  JsonRoundTrip([Absent EXCEPT !.kind = "object",
                               !.access_token = accessToken,
                               !.expires_at =
                                  IF ParseInt(expiresIn) = NaN THEN NaN
                                  ELSE t + ParseInt(expiresIn)])

\* completeImplicitLogin: the record it stores.
completeImplicitLogin(accessToken, expiresIn, t) ==
  JsonRoundTrip([Absent EXCEPT !.kind = "object",
                               !.access_token = accessToken,
                               !.expires_at = ExpiresAt(t, expiresIn)])

\* completeServerLogin, the .then handler: the response is accepted.
completeServerLoginAccepts(data) ==
  TruthyNum(data.expires_in) /\ TruthyStr(data.access_token)

\* completeServerLogin, the .then handler: the record it stores.
completeServerLogin(data, t) ==
  JsonRoundTrip([data EXCEPT !.expires_at = ExpiresAt(t, data.expires_in),
                             !.refresh_token = NONE])

\* refreshAccessToken as it would be if it stored every response.
refreshAccessTokenStoresAlways(data) == TRUE

\* refreshAccessToken, the .then handler: if (!data.Error).
refreshAccessTokenStores(data) == ~TruthyStr(data.Error)

\* refreshAccessToken, the .then handler: data after expires_at is set, which
\* is also the value the promise resolves with.
refreshAccessTokenData(data, t) ==
  IF ~TruthyStr(data.Error)
  THEN [data EXCEPT !.expires_at = ExpiresAt(t, data.expires_in)]
  ELSE data

\* refreshAccessToken as it would be without delete(clonedData.refresh_token).
refreshAccessTokenKeepsRefreshToken(data, t) ==
  JsonRoundTrip(refreshAccessTokenData(data, t))

\* refreshAccessToken, the .then handler: the record it stores (clonedData).
refreshAccessToken(data, t) ==
  [JsonRoundTrip(refreshAccessTokenData(data, t))
     EXCEPT !.refresh_token = NONE]

\* authorizedApiRequest: the token is to be refreshed first.
authorizedApiRequestRefreshes(token, t) ==
  refreshTokenUrl /\ TruthyNum(token.expires_at) /\ t > token.expires_at

\* authorizedApiRequest: formatAuthHeader.
formatAuthHeader(token) ==
  IF token.kind \in {"json", "object"} THEN Bearer(token.access_token)
  ELSE NullHeader

\* authorizedAsGuestApiRequest: the header made of getGuestToken's token.
guestAuthHeader(token) ==
  IF TruthyStr(token) THEN Bearer(token) ELSE NullHeader

\* ------------------------------------------------- synchronous operations

Event(name, step, state) ==
  [NoEvent EXCEPT !.op = name, !.step = step, !.state = state]

Sync == UNCHANGED <<config, now, guestSlot, pending>>

Logout ==
  /\ accessSlot' = logout(accessSlot)
  /\ last' = Event("logout", "call", "returned")
  /\ Sync

\* The synchronous operation name throws out of JSON.parse.
Threw(name) == [Event(name, "call", "threw") EXCEPT !.err = "SyntaxError"]

IsAccessTokenValid ==
  /\ accessSlot' = IF isAccessTokenValidRemoves(accessSlot, now)
                   THEN logout(accessSlot) ELSE accessSlot
  /\ last' = IF ParseThrows(accessSlot)
             THEN Threw("isAccessTokenValid")
             ELSE [Event("isAccessTokenValid", "call", "returned")
                     EXCEPT !.b = isAccessTokenValid(accessSlot, now)]
  /\ Sync

GetAccessTokenObject ==
  /\ accessSlot' = accessSlot
  /\ last' = IF ParseThrows(accessSlot)
             THEN Threw("getAccessTokenObject")
             ELSE [Event("getAccessTokenObject", "call", "returned")
                     EXCEPT !.obj = getAccessTokenObject(accessSlot)]
  /\ Sync

GetAccessToken ==
  /\ accessSlot' = accessSlot
  /\ last' = IF ParseThrows(accessSlot)
             THEN Threw("getAccessToken")
             ELSE [Event("getAccessToken", "call", "returned")
                     EXCEPT !.tok = getAccessToken(accessSlot)]
  /\ Sync

\* ------------------------------------------------- asynchronous operations
\* An operation is started when fewer than MaxPending promises are pending.
\* Its promise settles in the same step, or joins the pending ones.

CanStart == BagCardinality(pending) < MaxPending

\* The operation settles in the step that calls it.
Settle(e) ==
  /\ last' = e
  /\ UNCHANGED <<config, now, pending>>

\* The operation issues a network call and its promise stays pending, or
\* (call = "hung") its promise stays pending for ever.
Await(call, e) ==
  /\ pending' = pending (+) SetToBag({Promise(e.op, call)})
  /\ last' = e
  /\ UNCHANGED <<config, now>>

\* The network call of the pending promise c settles, and the promise too.
Finish(c, e) ==
  /\ pending' = pending (-) SetToBag({c})
  /\ last' = e
  /\ UNCHANGED <<config, now>>

\* The network call of the pending promise c settles, the promise does not.
Hang(c, e) ==
  /\ pending' = (pending (-) SetToBag({c}))
                  (+) SetToBag({Promise(c.op, "hung")})
  /\ last' = [e EXCEPT !.state = "hung"]
  /\ UNCHANGED <<config, now>>

Waiting(call) == {c \in BagToSet(pending) : c.call = call}

\* completeLogin(false): completeImplicitLogin, or 'No access_token supplied'.
CompleteLoginImplicit ==
  /\ CanStart
  /\ \E data \in RedirectTokenData :
       LET e == [Event("completeLogin(false)", "call", "resolved")
                   EXCEPT !.data = Object(data.access_token, data.expires_in,
                                          NONE, NONE)]
       IN IF completeLoginSupplied(data.access_token)
          THEN /\ accessSlot' = completeImplicitLogin(data.access_token,
                                                      data.expires_in, now)
               /\ Settle([e EXCEPT !.tok = data.access_token])
          ELSE /\ UNCHANGED accessSlot
               /\ Settle([e EXCEPT !.state = "rejected",
                                   !.err = "No access_token supplied"])
  /\ UNCHANGED guestSlot

\* completeLogin(true): 'No code supplied', or completeServerLogin up to its
\* network call.
CompleteLoginServer ==
  /\ CanStart
  /\ \E code \in RedirectCodes :
       LET e == [Event("completeLogin(true)", "call", "pending")
                   EXCEPT !.code = code]
       IN IF completeLoginSupplied(code)
          THEN IF accessTokenUrl
               THEN Await("exchange", e)
               ELSE Settle([e EXCEPT !.state = "rejected",
                                     !.err = "No Server Implementation"])
          ELSE Settle([e EXCEPT !.state = "rejected",
                                !.err = "No code supplied"])
  /\ UNCHANGED <<accessSlot, guestSlot>>

\* completeServerLogin: the exchange collaborator answers.
ExchangeResponse ==
  \E c \in Waiting("exchange"), data \in Responses :
    /\ LET e == [Event(c.op, "response", "resolved") EXCEPT !.data = data]
       IN IF completeServerLoginAccepts(data)
          THEN /\ accessSlot' = completeServerLogin(data, now)
               /\ Finish(c, [e EXCEPT !.tok = data.access_token])
          ELSE /\ UNCHANGED accessSlot
               /\ Finish(c, [e EXCEPT !.state = "rejected",
                                      !.err = data.Error])
    /\ UNCHANGED guestSlot

\* completeServerLogin: the network call fails.
ExchangeFailure ==
  \E c \in Waiting("exchange") :
    /\ Finish(c, [Event(c.op, "failure", "rejected") EXCEPT !.err = "network"])
    /\ UNCHANGED <<accessSlot, guestSlot>>

\* refreshAccessToken up to its network call.
RefreshAccessToken ==
  /\ CanStart
  /\ LET e == Event("refreshAccessToken", "call", "pending")
     IN IF refreshTokenUrl
        THEN Await("refresh", e)
        ELSE Settle([e EXCEPT !.state = "rejected",
                              !.err = "No Server Implementation"])
  /\ UNCHANGED <<accessSlot, guestSlot>>

\* authorizedApiRequest: the header resolution up to its network call.  A
\* throw of JSON.parse inside the promise executor rejects the promise.
AuthorizedApiRequest ==
  /\ CanStart
  /\ LET e == Event("authorizedApiRequest", "call", "resolved")
     IN CASE ParseThrows(accessSlot) ->
               Settle([e EXCEPT !.state = "rejected", !.err = "SyntaxError"])
          [] Truthy(accessSlot) ->
               IF authorizedApiRequestRefreshes(accessSlot, now)
               THEN Await("refresh", [e EXCEPT !.state = "pending"])
               ELSE Settle([e EXCEPT !.hdr = formatAuthHeader(accessSlot)])
          [] OTHER -> Settle([e EXCEPT !.hdr = NullHeader])
  /\ UNCHANGED <<accessSlot, guestSlot>>

\* refreshAccessToken: the refresh collaborator answers; the .then handler
\* runs and, inside authorizedApiRequest, the handler that resolves the
\* header with formatAuthHeader(refreshedToken).
RefreshResponse ==
  \E c \in Waiting("refresh"), data \in Responses :
    /\ accessSlot' = IF refreshAccessTokenStores(data)
                     THEN refreshAccessToken(data, now)
                     ELSE accessSlot
    /\ LET refreshedToken == refreshAccessTokenData(data, now)
           e == [Event(c.op, "response", "resolved") EXCEPT !.data = data]
       IN IF c.op = "authorizedApiRequest"
          THEN Finish(c, [e EXCEPT !.hdr = formatAuthHeader(refreshedToken)])
          ELSE Finish(c, [e EXCEPT !.obj = refreshedToken])
    /\ UNCHANGED guestSlot

\* refreshAccessToken: the network call fails.  The promise of
\* refreshAccessToken() rejects; the header resolution of
\* authorizedApiRequest handles no rejection and stays pending.
RefreshFailure ==
  \E c \in Waiting("refresh") :
    /\ LET e == [Event(c.op, "failure", "rejected") EXCEPT !.err = "network"]
       IN IF c.op = "authorizedApiRequest" THEN Hang(c, e) ELSE Finish(c, e)
    /\ UNCHANGED <<accessSlot, guestSlot>>

\* getGuestToken as it would be if getGuestTokenFromServer did not look at
\* _guestTokenUrl.
getGuestTokenAlwaysCalls(name) ==
  LET token == getGuestTokenRecord(guestSlot, accessSlot)
      e == Event(name, "call", "pending")
  IN IF getGuestTokenUsable(token, now)
     THEN [e EXCEPT !.state = "resolved", !.tok = token.access_token]
     ELSE e

\* getGuestToken: one of its two JSON.parse calls throws.
getGuestTokenThrows(guest, access) ==
  ParseThrows(guest) \/ (~Truthy(guest) /\ ParseThrows(access))

\* getGuestToken up to the network call of getGuestTokenFromServer: what
\* becomes of the promise it returns, or that it throws.
getGuestToken(name) ==
  LET token == getGuestTokenRecord(guestSlot, accessSlot)
      e == Event(name, "call", "pending")
  IN CASE getGuestTokenThrows(guestSlot, accessSlot) -> Threw(name)
       [] getGuestTokenUsable(token, now) ->
            [e EXCEPT !.state = "resolved", !.tok = token.access_token]
       [] OTHER ->
            IF guestTokenUrl
            THEN e
            ELSE [e EXCEPT !.state = "rejected",
                           !.err = "No Server Implementation"]

GetGuestToken ==
  /\ CanStart
  /\ LET e == getGuestToken("getGuestToken")
     IN IF e.state = "pending" THEN Await("guest", e) ELSE Settle(e)
  /\ UNCHANGED <<accessSlot, guestSlot>>

\* authorizedAsGuestApiRequest: the header resolution up to its network
\* call.  It handles no rejection of getGuestToken(): the header stays
\* pending then.  A throw of getGuestToken() inside the promise executor
\* rejects the header promise.
AuthorizedAsGuestApiRequest ==
  /\ CanStart
  /\ LET e == getGuestToken("authorizedAsGuestApiRequest")
     IN CASE e.state = "resolved" ->
               Settle([e EXCEPT !.tok = NONE,
                                !.hdr = guestAuthHeader(e.tok)])
          [] e.state = "pending" -> Await("guest", e)
          [] e.state = "threw" -> Settle([e EXCEPT !.state = "rejected"])
          [] OTHER -> Await("hung", [e EXCEPT !.state = "hung"])
  /\ UNCHANGED <<accessSlot, guestSlot>>

\* getGuestTokenFromServer: the guest-token collaborator answers; the .then
\* handler runs and, inside authorizedAsGuestApiRequest, the handler that
\* resolves the header.
GuestResponse ==
  \E c \in Waiting("guest"), data \in Responses :
    /\ guestSlot' = getGuestTokenFromServer(data, now)
    /\ LET e == [Event(c.op, "response", "resolved") EXCEPT !.data = data]
       IN IF c.op = "authorizedAsGuestApiRequest"
          THEN Finish(c, [e EXCEPT !.hdr = guestAuthHeader(data.access_token)])
          ELSE Finish(c, [e EXCEPT !.tok = data.access_token])
    /\ UNCHANGED accessSlot

\* getGuestTokenFromServer: the network call fails.
GuestFailure ==
  \E c \in Waiting("guest") :
    /\ LET e == [Event(c.op, "failure", "rejected") EXCEPT !.err = "network"]
       IN IF c.op = "authorizedAsGuestApiRequest"
          THEN Hang(c, e) ELSE Finish(c, e)
    /\ UNCHANGED <<accessSlot, guestSlot>>

\* Time passes.
Tick ==
  /\ now < MaxTime
  /\ now' = now + MsPerSec
  /\ last' = Event("tick", "call", "returned")
  /\ UNCHANGED <<config, accessSlot, guestSlot, pending>>

Next ==
  \/ Tick
  \/ Logout
  \/ IsAccessTokenValid
  \/ GetAccessTokenObject
  \/ GetAccessToken
  \/ CompleteLoginImplicit
  \/ CompleteLoginServer
  \/ ExchangeResponse
  \/ ExchangeFailure
  \/ RefreshAccessToken
  \/ RefreshResponse
  \/ RefreshFailure
  \/ AuthorizedApiRequest
  \/ GetGuestToken
  \/ AuthorizedAsGuestApiRequest
  \/ GuestResponse
  \/ GuestFailure

Spec == Init /\ [][Next]_vars

\* localStorage is shared with every script of the origin: the same program
\* started with arbitrary text already under either key.
InitStorage ==
  /\ guestTokenUrl \in BOOLEAN
  /\ accessTokenUrl \in BOOLEAN
  /\ refreshTokenUrl \in BOOLEAN
  /\ now = StartTime
  /\ accessSlot \in {Absent, Malformed}
  /\ guestSlot \in {Absent, Malformed}
  /\ pending = EmptyBag
  /\ last = NoEvent

SpecStorage == InitStorage /\ [][Next]_vars

\* ------------------------------------------------------------ properties

\* The specification's notion of a valid record: expires_at is present and
\* strictly greater than the current time.  An expired record is one whose
\* expires_at is present and not greater than the current time.
Valid(record, t) ==
  record.kind = "json" /\ TruthyNum(record.expires_at) /\ record.expires_at > t

Expired(record, t) ==
  record.kind = "json" /\ TruthyNum(record.expires_at)
    /\ record.expires_at <= t

\* The step is the call of the operation name.
Called(name) == last'.op = name /\ last'.step = "call"

\* The step issued no network call and changed neither slot.
NothingDone ==
  pending' = pending /\ accessSlot' = accessSlot /\ guestSlot' = guestSlot

\* C1: in every reachable state the record in the access-token slot has no
\* refresh_token field, whatever the collaborators answered and however the
\* operations interleaved.
C1_NoRefreshTokenStored == accessSlot.refresh_token = NONE

\* C1 witness: a refresh response that carried a refresh_token has been
\* stored while another promise was pending.
C1_Witness ==
  /\ last.op = "refreshAccessToken" /\ last.step = "response"
  /\ last.data.refresh_token = "rt" /\ ~TruthyStr(last.data.Error)
  /\ Truthy(accessSlot) /\ accessSlot.access_token = last.data.access_token
  /\ pending # EmptyBag

\* C2 (as claimed): the call of authorizedApiRequest resolves the header to
\* null when the slot is absent; to "Bearer " + the stored access_token,
\* with no network call, when the record is not expired or no refresh URL is
\* configured; and issues a refresh call if and only if the record is
\* present, expired (expires_at <= now) and a refresh URL is configured.
C2_HeaderDecision ==
  [][Called("authorizedApiRequest") =>
       /\ ~Truthy(accessSlot) =>
            last'.state = "resolved" /\ last'.hdr = NullHeader
       /\ Truthy(accessSlot) /\ (Valid(accessSlot, now) \/ ~refreshTokenUrl) =>
            /\ last'.state = "resolved"
            /\ last'.hdr = Bearer(accessSlot.access_token)
            /\ pending' = pending
       /\ InFlight("refresh")' = InFlight("refresh") + 1
            <=> Expired(accessSlot, now) /\ refreshTokenUrl]_vars

\* C3 (as claimed): the call of authorizedApiRequest that finds an expired
\* access token while a refresh URL is configured issues exactly one refresh
\* call, and when that call is answered without an error indicator the
\* header resolves to "Bearer " + the access_token of the answer and the
\* answer, less its refresh_token, is the record of the access-token slot.
C3_RefreshOnce ==
  [][/\ Called("authorizedApiRequest") /\ Expired(accessSlot, now)
          /\ refreshTokenUrl =>
            /\ last'.state = "pending"
            /\ InFlight("refresh")' = InFlight("refresh") + 1
     /\ last'.op = "authorizedApiRequest" /\ last'.step = "response"
          /\ ~TruthyStr(last'.data.Error) =>
            /\ last'.state = "resolved"
            /\ last'.hdr = Bearer(last'.data.access_token)
            /\ Truthy(accessSlot')
            /\ accessSlot'.access_token = last'.data.access_token
            /\ accessSlot'.expires_in = last'.data.expires_in
            /\ InFlight("refresh")' = InFlight("refresh") - 1]_vars

\* C3, the part that holds of the code: when the stored expires_at is
\* strictly less than the current time, the call issues exactly one refresh
\* call, and the answer is handled as C3 says.
C3_RefreshOnceWhenPastExpiry ==
  [][/\ Called("authorizedApiRequest") /\ Expired(accessSlot, now)
          /\ accessSlot.expires_at < now /\ refreshTokenUrl =>
            /\ last'.state = "pending"
            /\ InFlight("refresh")' = InFlight("refresh") + 1
     /\ last'.op = "authorizedApiRequest" /\ last'.step = "response"
          /\ ~TruthyStr(last'.data.Error) =>
            /\ last'.state = "resolved"
            /\ last'.hdr = Bearer(last'.data.access_token)
            /\ Truthy(accessSlot')
            /\ accessSlot'.access_token = last'.data.access_token
            /\ accessSlot'.expires_in = last'.data.expires_in
            /\ InFlight("refresh")' = InFlight("refresh") - 1]_vars

\* C4 (as claimed): the header resolution of authorizedApiRequest never
\* rejects, and it resolves the header to null when the refresh call fails
\* or is answered with an error indicator and no access_token.
C4_NullWhenNoToken ==
  last.op = "authorizedApiRequest" =>
    /\ last.state # "rejected"
    /\ last.step = "failure" =>
         last.state = "resolved" /\ last.hdr = NullHeader
    /\ last.step = "response" /\ TruthyStr(last.data.Error)
         /\ ~TruthyStr(last.data.access_token) =>
         last.state = "resolved" /\ last.hdr = NullHeader

\* C5 (as claimed): the header resolution of authorizedAsGuestApiRequest
\* never resolves to null, and it rejects when the issuance of the guest
\* token fails: the issuance call fails, or no guest-token URL is configured
\* while no stored token is valid.
C5_GuestHeaderOrRejection ==
  last.op = "authorizedAsGuestApiRequest" =>
    /\ last.state = "resolved" => last.hdr # NullHeader
    /\ last.step = "failure" => last.state = "rejected"
    /\ last.step = "call" /\ ~guestTokenUrl
         /\ ~Valid(guestSlot, now) /\ ~Valid(accessSlot, now) =>
         last.state = "rejected"

\* C6: a step of logout leaves the access-token slot empty, so that
\* getAccessTokenObject() and getAccessToken() return null and
\* isAccessTokenValid() returns false, and leaves the guest-token slot as it
\* was.
C6_LogoutEmptiesAccessSlot ==
  [][Called("logout") =>
       /\ ~Truthy(accessSlot')
       /\ getAccessTokenObject(accessSlot') = Absent
       /\ getAccessToken(accessSlot') = NULLSTR
       /\ ~isAccessTokenValid(accessSlot', now')
       /\ guestSlot' = guestSlot
       /\ pending' = pending]_vars

\* C6 witness: logout has run while the guest-token slot held a record and a
\* promise was pending.
C6_Witness ==
  /\ last.op = "logout"
  /\ ~Truthy(accessSlot)
  /\ Truthy(guestSlot)
  /\ pending # EmptyBag

\* C7: getGuestToken() called when the guest-token slot is empty and the
\* access-token slot holds a valid record resolves to that record's
\* access_token, issues no network call and changes neither slot.
C7_GuestTokenFromAccessSlot ==
  [][Called("getGuestToken") /\ ~Truthy(guestSlot) /\ Valid(accessSlot, now) =>
       /\ last'.state = "resolved"
       /\ last'.tok = accessSlot.access_token
       /\ NothingDone]_vars

\* C7 witness: getGuestToken() has resolved from a valid access-token record
\* with the guest-token slot empty, a guest-token URL being configured.
C7_Witness ==
  /\ last.op = "getGuestToken" /\ last.step = "call"
  /\ last.state = "resolved" /\ last.tok = accessSlot.access_token
  /\ ~Truthy(guestSlot) /\ Valid(accessSlot, now)
  /\ guestTokenUrl

\* C8 (as claimed): getGuestToken() called with the guest-token slot empty
\* or holding an expired record falls back to the access-token slot: with a
\* valid access-token record it resolves to the access token without an
\* issuance call, and issuance is called only if neither slot holds a valid
\* record.
C8_FallbackWhenExpired ==
  [][Called("getGuestToken")
       /\ (~Truthy(guestSlot) \/ Expired(guestSlot, now)) =>
       /\ Valid(accessSlot, now) =>
            /\ last'.state = "resolved"
            /\ last'.tok = accessSlot.access_token
            /\ pending' = pending
       /\ InFlight("guest")' = InFlight("guest") + 1 =>
            ~Valid(guestSlot, now) /\ ~Valid(accessSlot, now)]_vars

\* C8 (amended): getGuestToken() looks at the access-token record only when
\* the guest-token slot is empty.  The record it looks at, the guest record
\* whenever there is one, decides alone: valid, the promise resolves to its
\* access_token without a network call; not valid, the issuance collaborator
\* is called if a guest-token URL is configured and the promise rejects
\* otherwise, even when the access-token slot holds a valid record.
C8_FallbackOnlyWhenAbsent ==
  [][Called("getGuestToken") =>
       LET token == IF Truthy(guestSlot) THEN guestSlot ELSE accessSlot
       IN /\ Valid(token, now) =>
               /\ last'.state = "resolved"
               /\ last'.tok = token.access_token
               /\ pending' = pending
          /\ ~Valid(token, now) /\ guestTokenUrl =>
               /\ last'.state = "pending"
               /\ InFlight("guest")' = InFlight("guest") + 1
          /\ ~Valid(token, now) /\ ~guestTokenUrl =>
               /\ last'.state = "rejected"
               /\ pending' = pending]_vars

\* C8 witness: getGuestToken() has called the issuance collaborator although
\* the access-token slot holds a valid record, the guest record being
\* expired.
C8_Witness ==
  /\ last.op = "getGuestToken" /\ last.step = "call"
  /\ last.state = "pending"
  /\ Expired(guestSlot, now) /\ Valid(accessSlot, now)

\* The operation failed at once for want of a collaborator URL.
C9_Unsupported ==
  /\ last'.state = "rejected"
  /\ last'.err = "No Server Implementation"
  /\ NothingDone

\* C9: an operation that needs a collaborator URL that is not configured
\* rejects in the step that calls it, issues no network call and changes
\* neither slot: getGuestToken() with no valid record in either slot and no
\* guest-token URL, refreshAccessToken() with no refresh URL, and
\* completeLogin(true) with a code and no access-token-exchange URL.
C9_UnsupportedFailsAtOnce ==
  [][/\ Called("getGuestToken") /\ ~guestTokenUrl
          /\ ~Valid(guestSlot, now) /\ ~Valid(accessSlot, now) =>
            C9_Unsupported
     /\ Called("refreshAccessToken") /\ ~refreshTokenUrl => C9_Unsupported
     /\ Called("completeLogin(true)") /\ TruthyStr(last'.code)
          /\ ~accessTokenUrl => C9_Unsupported]_vars

\* C9 witness: getGuestToken() has rejected with an expired access-token
\* record, no guest record and no guest-token URL.
C9_Witness ==
  /\ last.op = "getGuestToken" /\ last.state = "rejected"
  /\ last.err = "No Server Implementation"
  /\ ~guestTokenUrl /\ ~Truthy(guestSlot) /\ Expired(accessSlot, now)

\* C10: isAccessTokenValid() returns true exactly when the access-token
\* record has expires_at > now, and getGuestToken() resolves from the stored
\* record it looks at, without a network call, exactly when that record has
\* expires_at > now; a record with expires_at <= now is reported invalid.
C10_ValidIffStrictlyLater ==
  [][/\ Called("isAccessTokenValid") =>
          /\ last'.b <=> Valid(accessSlot, now)
          /\ Expired(accessSlot, now) => ~last'.b
     /\ Called("getGuestToken") =>
          LET token == IF Truthy(guestSlot) THEN guestSlot ELSE accessSlot
          IN (last'.state = "resolved" /\ pending' = pending)
               <=> Valid(token, now)]_vars

\* C10 witness: isAccessTokenValid() has returned false for a record whose
\* expires_at equals the current time.
C10_Witness ==
  /\ last.op = "isAccessTokenValid" /\ ~last.b
  /\ Truthy(accessSlot) /\ accessSlot.expires_at = now

\* C11 (as claimed): text that is not JSON under either key is treated as
\* an empty slot and nothing is raised: isAccessTokenValid() returns false,
\* getAccessTokenObject() and getAccessToken() return null, the header of
\* authorizedApiRequest resolves to null, getGuestToken() goes on to the
\* issuance of a guest token, and no step throws or rejects with the
\* SyntaxError of JSON.parse.
C11_MalformedTreatedAsAbsent ==
  [][/\ last'.state # "threw" /\ last'.err # "SyntaxError"
     /\ Called("isAccessTokenValid") /\ ParseThrows(accessSlot) =>
          last'.state = "returned" /\ ~last'.b
     /\ Called("getAccessTokenObject") /\ ParseThrows(accessSlot) =>
          last'.state = "returned" /\ last'.obj = Absent
     /\ Called("getAccessToken") /\ ParseThrows(accessSlot) =>
          last'.state = "returned" /\ last'.tok = NULLSTR
     /\ Called("authorizedApiRequest") /\ ParseThrows(accessSlot) =>
          last'.state = "resolved" /\ last'.hdr = NullHeader
     /\ Called("getGuestToken") /\ ParseThrows(guestSlot)
          /\ ~Truthy(accessSlot) =>
          IF guestTokenUrl
          THEN last'.state = "pending"
          ELSE last'.state = "rejected"
                 /\ last'.err = "No Server Implementation"]_vars

\* The step is a read of the access-token slot.
C12_Read ==
  \/ Called("isAccessTokenValid")
  \/ Called("getAccessTokenObject")
  \/ Called("getAccessToken")

C13_RefreshErrorPersistsNothing ==
  [][last'.op = "refreshAccessToken" /\ last'.step = "response"
       /\ TruthyStr(last'.data.Error) =>
       /\ accessSlot' = accessSlot
       /\ guestSlot' = guestSlot
       /\ last'.state = "resolved"
       /\ last'.obj = last'.data]_vars

\* C13 witness: refreshAccessToken() has resolved with an answer that
\* carries an error indicator and an access token, and the slot still holds
\* the record of the implicit login.
C13_Witness ==
  /\ last.op = "refreshAccessToken" /\ last.step = "response"
  /\ last.state = "resolved" /\ last.obj = last.data
  /\ TruthyStr(last.data.Error) /\ last.data.access_token = "t2"
  /\ Truthy(accessSlot) /\ accessSlot.access_token = "t1"

\* C14 (as claimed): the step that handles the answer of the code exchange,
\* when the answer has an access_token and an expires_in and no error
\* indicator, makes the answer, less its refresh_token and with expires_at =
\* now + expires_in * 1000, the record of the access-token slot and resolves
\* with the access_token; when the answer has an error indicator or lacks
\* one of the two fields, it rejects with the error the server reported and
\* leaves the access-token slot as it was.
C14_ExchangeOutcome ==
  [][last'.op = "completeLogin(true)" /\ last'.step = "response" =>
       LET data == last'.data
       IN IF TruthyStr(data.access_token) /\ data.expires_in # Undefined
               /\ ~TruthyStr(data.Error)
          THEN /\ last'.state = "resolved"
               /\ last'.tok = data.access_token
               /\ accessSlot' =
                    [data EXCEPT !.kind = "json",
                                 !.expires_at = now + data.expires_in * MsPerSec,
                                 !.refresh_token = NONE]
          ELSE /\ last'.state = "rejected"
               /\ last'.err = data.Error
               /\ accessSlot' = accessSlot]_vars

\* C15: completeLogin(true) with no authorization code in the redirect
\* rejects with 'No code supplied', and completeLogin(false) with no
\* access_token in the redirect rejects with 'No access_token supplied'; in
\* both cases, whatever URLs are configured, the step issues no network call
\* and changes neither slot.
C15_MissingInputFailsAtOnce ==
  [][/\ (Called("completeLogin(true)") /\ ~TruthyStr(last'.code)) =>
          /\ last'.state = "rejected"
          /\ last'.err = "No code supplied"
          /\ NothingDone
     /\ (Called("completeLogin(false)")
           /\ ~TruthyStr(last'.data.access_token)) =>
          /\ last'.state = "rejected"
          /\ last'.err = "No access_token supplied"
          /\ NothingDone]_vars

\* C15 witness: completeLogin(true) has rejected for want of a code with
\* the exchange URL configured, a record in the access-token slot and a
\* network call of another operation in flight.
C15_Witness ==
  /\ last.op = "completeLogin(true)" /\ last.step = "call"
  /\ last.state = "rejected" /\ last.err = "No code supplied"
  /\ accessTokenUrl /\ Truthy(accessSlot) /\ InFlight("exchange") = 1

C17_GuestRoundTrip ==
  [][(last'.op = "getGuestToken" /\ last'.step = "response"
        /\ TruthyStr(last'.data.access_token)
        /\ last'.data.expires_in # Undefined) =>
       /\ last'.state = "resolved"
       /\ last'.tok = last'.data.access_token
       /\ Truthy(guestSlot')
       /\ getGuestTokenRecord(guestSlot', accessSlot') = guestSlot'
       /\ guestSlot'.access_token = last'.data.access_token
       /\ guestSlot'.expires_at = now + last'.data.expires_in * MsPerSec
       /\ accessSlot' = accessSlot]_vars

\* C17 witness: getGuestToken() has resolved with the issued token, the
\* guest-token slot holds it with expires_at one second from now, and the
\* access-token slot still holds the record of the implicit login.
C17_Witness ==
  /\ last.op = "getGuestToken" /\ last.step = "response"
  /\ last.state = "resolved" /\ last.tok = "t2"
  /\ last.data.expires_in = 1
  /\ Truthy(guestSlot) /\ guestSlot.access_token = "t2"
  /\ guestSlot.expires_at = now + MsPerSec
  /\ Truthy(accessSlot) /\ accessSlot.access_token = "t1"

\* C18 (as claimed): with a refresh URL configured, every call of
\* authorizedApiRequest that reads an expired access-token record
\* (expires_at <= now) issues a refresh call of its own, however many
\* refresh calls are in flight already, and a call that reads a valid record
\* issues none.
C18_NoDeduplication ==
  [][(Called("authorizedApiRequest") /\ refreshTokenUrl) =>
       /\ Expired(accessSlot, now) =>
            /\ last'.state = "pending"
            /\ InFlight("refresh")' = InFlight("refresh") + 1
       /\ Valid(accessSlot, now) =>
            last'.state = "resolved" /\ pending' = pending]_vars

\* C18 for a record strictly past expiry (expires_at < now), which is where
\* the code refreshes: every call issues a refresh call of its own, and a
\* call that reads a valid record issues none.
C18_NoDeduplicationWhenPastExpiry ==
  [][(Called("authorizedApiRequest") /\ refreshTokenUrl) =>
       /\ Expired(accessSlot, now) /\ accessSlot.expires_at < now =>
            /\ last'.state = "pending"
            /\ InFlight("refresh")' = InFlight("refresh") + 1
       /\ Valid(accessSlot, now) =>
            last'.state = "resolved" /\ pending' = pending]_vars

\* C18: two header resolutions of authorizedApiRequest wait for a refresh
\* call each, the record they read being still in the slot.
C18_TwoRefreshesInFlight ==
  /\ CopiesIn(Promise("authorizedApiRequest", "refresh"), pending) >= 2
  /\ Expired(accessSlot, now)
  /\ last.op = "authorizedApiRequest" /\ last.step = "call"

\* C19 (as claimed), for the step that follows logout(): a completeLogin or
\* a refresh started after the logout has had no step yet, except
\* completeLogin(false), which stores its record in the step that calls it.
\* So the access-token slot is still empty after that step unless the step
\* is a call of completeLogin(false); in particular the answer to a refresh
\* or code-exchange call that was in flight when logout() ran leaves it
\* empty.
C19_LogoutDurable ==
  [][last.op = "logout" =>
       Called("completeLogin(false)") \/ ~Truthy(accessSlot')]_vars

\* C20 (as claimed), in the form a finite run refutes: a header resolution
\* of authorizedApiRequest or authorizedAsGuestApiRequest that is pending
\* waits for a network call in flight, whose settling settles it.  It is
\* never left pending with every network call it started settled (or none
\* started) and no handler left that could settle it, as it would be then
\* for ever.
C20_HeaderNeverLeftPending ==
  \A c \in BagToSet(pending) :
    c.op \in {"authorizedApiRequest", "authorizedAsGuestApiRequest"} =>
      c.call # "hung"

====
